---------------------------- MODULE Spec2Model ----------------------------
(***************************************************************************)
(* A model of the GDP Explorer script (src/app.py): its metric helpers     *)
(* (latest_value, pct_change, cagr, annual_growth_series, series_growth,   *)
(* the volatility summary) and its top-to-bottom run (data input, the      *)
(* st.stop() gate, metric enrichment, the Surprising Growers selection).   *)
(*                                                                         *)
(* Numbers are exact rationals [k |-> "num", n, d] in lowest terms; a      *)
(* missing value is NaN.  Column names are sequences of characters so that *)
(* int(name) and str(year) are computed, not assumed.                      *)
(***************************************************************************)
EXTENDS Integers, Sequences, FiniteSets

\* ------------------------------------------------------------------------
\* Bounds of the model
\* ------------------------------------------------------------------------
MaxVal == 4
MaxYears == 2
MaxExtra == 1

\* ------------------------------------------------------------------------
\* Column names: strings as character sequences, int() and str()
\* ------------------------------------------------------------------------
Country == <<"C", "o", "u", "n", "t", "r", "y">>
GDPpc == <<"G", "D", "P">>
P9 == <<"9">>
P09 == <<"0", "9">>
P10 == <<"1", "0">>
P11 == <<"1", "1">>
Y2020 == <<"2", "0", "2", "0">>
Y2021 == <<"2", "0", "2", "1">>
Y2022 == <<"2", "0", "2", "2">>
Y2023 == <<"2", "0", "2", "3">>
Y2024 == <<"2", "0", "2", "4">>
Y2025 == <<"2", "0", "2", "5">>
LatestGDP == <<"L", "a", "t", "e", "s", "t", "G", "D", "P">>
LatestYear == <<"L", "a", "t", "e", "s", "t", "Y", "e", "a", "r">>
Pct_2020_2021 == <<"P", "c", "t", "_", "2", "0", "2", "0", "_", "2", "0", "2", "1">>
Pct_2020_2022 == <<"P", "c", "t", "_", "2", "0", "2", "0", "_", "2", "0", "2", "2">>
CAGR_2020_2025 == <<"C", "A", "G", "R", "_", "2", "0", "2", "0", "_", "2", "0", "2", "5">>
Has_2020_and_2025 == <<"H", "a", "s", "_", "2", "0", "2", "0", "_", "a", "n", "d", "_", "2", "0", "2", "5">>

Digits == {"0", "1", "2", "3", "4", "5", "6", "7", "8", "9"}

DigitVal(c) ==
    CASE c = "0" -> 0 [] c = "1" -> 1 [] c = "2" -> 2 [] c = "3" -> 3
      [] c = "4" -> 4 [] c = "5" -> 5 [] c = "6" -> 6 [] c = "7" -> 7
      [] c = "8" -> 8 [] c = "9" -> 9

DigitChar(i) ==
    CASE i = 0 -> "0" [] i = 1 -> "1" [] i = 2 -> "2" [] i = 3 -> "3"
      [] i = 4 -> "4" [] i = 5 -> "5" [] i = 6 -> "6" [] i = 7 -> "7"
      [] i = 8 -> "8" [] i = 9 -> "9"

\* int(x) succeeds on a non-empty string of decimal digits
IntParses(s) == Len(s) > 0 /\ \A i \in 1..Len(s) : s[i] \in Digits

RECURSIVE IntOf(_)
IntOf(s) ==
    IF Len(s) = 0 THEN 0
    ELSE IntOf(SubSeq(s, 1, Len(s) - 1)) * 10 + DigitVal(s[Len(s)])

RECURSIVE StrOf(_)
StrOf(i) ==
    IF i < 10 THEN <<DigitChar(i)>>
    ELSE StrOf(i \div 10) \o <<DigitChar(i % 10)>>

\* ------------------------------------------------------------------------
\* Values: NaN, exact rationals, text, and the results of float power
\* ------------------------------------------------------------------------
Abs(i) == IF i < 0 THEN -i ELSE i

RECURSIVE GCD(_, _)
GCD(x, y) == IF y = 0 THEN x ELSE GCD(y, x % y)

NaN == [k |-> "nan"]
Num(n, d) ==
    LET g == GCD(Abs(n), Abs(d))
        s == IF d < 0 THEN -1 ELSE 1
    IN  [k |-> "num", n |-> (s * n) \div g, d |-> (s * d) \div g]
Whole(i) == Num(i, 1)
Text(s) == [k |-> "text", s |-> s]
Str(name) == [k |-> "str", s |-> name]
Complex == [k |-> "complex"]

Ok(v) == [k |-> "ok", v |-> v]
Raise(e) == [k |-> "raise", e |-> e]

isna(x) == x.k = "nan"
notna(x) == x.k # "nan"

RAdd(x, y) == Num(x.n * y.d + y.n * x.d, x.d * y.d)
RSub(x, y) == Num(x.n * y.d - y.n * x.d, x.d * y.d)
RMul(x, y) == Num(x.n * y.n, x.d * y.d)
RDiv(x, y) == Num(x.n * y.d, x.d * y.n)
RLt(x, y) == x.n * y.d < y.n * x.d
RLe(x, y) == x.n * y.d <= y.n * x.d
IsZero(x) == x.n = 0

\* x ** e for a small natural e, stopping above cap (keeps integers small)
RECURSIVE PowCap(_, _, _)
PowCap(x, e, cap) ==
    IF e = 0 THEN 1
    ELSE LET p == PowCap(x, e - 1, cap)
         IN  IF p > cap /\ x > 1 THEN p ELSE p * x

\* the least r >= from with r ** n >= p
RECURSIVE RootSearch(_, _, _)
RootSearch(p, n, from) ==
    IF PowCap(from, n, p) >= p THEN from ELSE RootSearch(p, n, from + 1)

IRoot(p, n) == RootSearch(p, n, 0)
HasIRoot(p, n) == PowCap(IRoot(p, n), n, p) = p

\* The scalar type the operands arrive as
ScalarKinds == {"float", "numpy.float64"}

\* x ** (1.0 / n) for n >= 1.  A negative base under a fractional exponent is
\* nan for numpy.float64 and a complex number for a Python float.
FloatPow(x, n, kind) ==
    IF n = 1 THEN x
    ELSE IF x.n < 0 THEN (IF kind = "float" THEN Complex ELSE NaN)
    ELSE IF HasIRoot(x.n, n) /\ HasIRoot(x.d, n)
         THEN Num(IRoot(x.n, n), IRoot(x.d, n))
         ELSE [k |-> "root", base |-> x, n |-> n]

\* (p - 1.0) * 100.0 on the result of FloatPow
MinusOneTimes100(p) ==
    CASE p.k = "num" -> RMul(RSub(p, Whole(1)), Whole(100))
      [] p.k = "root" -> [k |-> "irr", root |-> p]
      [] OTHER -> p

\* ------------------------------------------------------------------------
\* Series (a row) and DataFrame
\* ------------------------------------------------------------------------
Series(index, values) == [index |-> index, values |-> values]
Frame(columns, rows) == [columns |-> columns, rows |-> rows]

InSeq(x, s) == \E i \in 1..Len(s) : s[i] = x
IndexOf(x, s) == CHOOSE i \in 1..Len(s) : s[i] = x /\ \A j \in 1..(i - 1) : s[j] # x

\* row[y]
SeriesItem(row, y) == row.values[IndexOf(y, row.index)]
\* row.get(y, default)
SeriesGet(row, y, default) ==
    IF InSeq(y, row.index) THEN SeriesItem(row, y) ELSE default
\* row.to_frame().T
to_frame_T(row) == Frame(row.index, <<row.values>>)
\* the row of a frame at position i
FrameRow(df, i) == Series(df.columns, df.rows[i])

RECURSIVE SelectNames(_, _)
SelectNames(s, drop) ==
    IF s = <<>> THEN <<>>
    ELSE IF Head(s) = drop THEN SelectNames(Tail(s), drop)
    ELSE <<Head(s)>> \o SelectNames(Tail(s), drop)

\* one step of a stable insertion sort on int(name)
RECURSIVE InsertByInt(_, _, _)
InsertByInt(x, s, reverse) ==
    IF s = <<>> THEN <<x>>
    ELSE IF (IF reverse THEN IntOf(Head(s)) >= IntOf(x) ELSE IntOf(Head(s)) <= IntOf(x))
         THEN <<Head(s)>> \o InsertByInt(x, Tail(s), reverse)
         ELSE <<x>> \o s

\* sorted(names, key=int, reverse=reverse) on names that all parse
RECURSIVE SortedByInt(_, _)
SortedByInt(s, reverse) ==
    IF s = <<>> THEN <<>>
    ELSE InsertByInt(s[Len(s)], SortedByInt(SubSeq(s, 1, Len(s) - 1), reverse), reverse)

AllParse(s) == \A i \in 1..Len(s) : IntParses(s[i])

\* ------------------------------------------------------------------------
\* The helpers of src/app.py
\* ------------------------------------------------------------------------
get_year_cols(df) ==
    LET cs == SelectNames(df.columns, Country)
    IN  IF AllParse(cs) THEN Ok(SortedByInt(cs, FALSE)) ELSE Raise("ValueError")

RECURSIVE LatestScan(_, _)
LatestScan(row, ys) ==
    IF ys = <<>> THEN Ok([value |-> NaN, period |-> NaN])
    ELSE IF ~InSeq(Head(ys), row.index) THEN Raise("KeyError")
    ELSE IF notna(SeriesItem(row, Head(ys)))
         THEN Ok([value |-> SeriesItem(row, Head(ys)), period |-> Str(Head(ys))])
         ELSE LatestScan(row, Tail(ys))

latest_value_asc(row, year_cols) ==
    IF ~AllParse(year_cols) THEN Raise("ValueError")
    ELSE LatestScan(row, SortedByInt(year_cols, FALSE))

latest_value(row, year_cols) ==
    IF ~AllParse(year_cols) THEN Raise("ValueError")
    ELSE LatestScan(row, SortedByInt(year_cols, TRUE))

pct_change_swapped(a, b) ==
    IF isna(a) \/ isna(b) \/ IsZero(a) THEN NaN
    ELSE RMul(RDiv(RSub(a, b), a), Whole(100))

pct_change(a, b) ==
    IF isna(a) \/ isna(b) \/ IsZero(a) THEN NaN
    ELSE RMul(RDiv(RSub(b, a), a), Whole(100))

cagr_no_years_guard(a, b, n_years, kind) ==
    IF isna(a) \/ isna(b) \/ RLe(a, Whole(0)) THEN NaN
    ELSE IF n_years = 0 \/ (n_years < 0 /\ IsZero(b)) THEN Raise("ZeroDivisionError")
    ELSE IF n_years < 0 THEN MinusOneTimes100(FloatPow(RDiv(a, b), -n_years, kind))
    ELSE MinusOneTimes100(FloatPow(RDiv(b, a), n_years, kind))

cagr(a, b, n_years, kind) ==
    IF isna(a) \/ isna(b) \/ RLe(a, Whole(0)) \/ n_years <= 0 THEN NaN
    ELSE MinusOneTimes100(FloatPow(RDiv(b, a), n_years, kind))

\* the loop shared by annual_growth_series and series_growth
RECURSIVE GrowthLoop(_, _)
GrowthLoop(vals, i) ==
    IF i > Len(vals) THEN <<>>
    ELSE LET a == vals[i - 1]
             b == vals[i]
         IN  (IF notna(a) /\ notna(b) /\ a.n > 0
              THEN <<RMul(RDiv(RSub(b, a), a), Whole(100))>>
              ELSE <<>>) \o GrowthLoop(vals, i + 1)

annual_growth_series(row) ==
    LET yc == get_year_cols(to_frame_T(row))
    IN  IF yc.k = "raise" THEN yc
        ELSE LET ys == [i \in 1..Len(yc.v) |-> IntOf(yc.v[i])]
                 vals == [i \in 1..Len(ys) |-> SeriesGet(row, StrOf(ys[i]), NaN)]
             IN  Ok(GrowthLoop(vals, 2))

series_growth(row, year_cols) ==
    LET vals == [i \in 1..Len(year_cols) |->
                    SeriesGet(row, StrOf(IntOf(year_cols[i])), NaN)]
    IN  GrowthLoop(vals, 2)

\* ------------------------------------------------------------------------
\* numpy reductions used by the volatility summary
\* ------------------------------------------------------------------------
RECURSIVE RSum(_)
RSum(xs) == IF xs = <<>> THEN Whole(0) ELSE RAdd(Head(xs), RSum(Tail(xs)))

\* np.nanmean on a non-empty list without NaN
np_nanmean(xs) == RDiv(RSum(xs), Whole(Len(xs)))

IsSquare(p) == \E r \in 0..p : r * r = p
ISqrt(p) == CHOOSE r \in 0..p : r * r = p

np_sqrt(x) ==
    IF IsSquare(x.n) /\ IsSquare(x.d) THEN Num(ISqrt(x.n), ISqrt(x.d))
    ELSE [k |-> "sqrt", of |-> x]

\* np.std(xs, ddof=ddof): sqrt(sum(|x - mean|**2) / (N - ddof)); 0/0 is nan
np_std(xs, ddof) ==
    LET m == np_nanmean(xs)
        sq == [i \in 1..Len(xs) |-> RMul(RSub(xs[i], m), RSub(xs[i], m))]
    IN  IF Len(xs) - ddof <= 0 THEN NaN
        ELSE np_sqrt(RDiv(RSum(sq), Whole(Len(xs) - ddof)))

Volatility_SD_sample(row, year_cols) ==
    IF Len(series_growth(row, year_cols)) > 0
    THEN np_std(series_growth(row, year_cols), 1) ELSE NaN

Volatility_SD(row, year_cols) ==
    IF Len(series_growth(row, year_cols)) > 0
    THEN np_std(series_growth(row, year_cols), 0) ELSE NaN

Avg_Annual_Growth(row, year_cols) ==
    IF Len(series_growth(row, year_cols)) > 0
    THEN np_nanmean(series_growth(row, year_cols)) ELSE NaN

\* ------------------------------------------------------------------------
\* CSV files and load_csv
\* ------------------------------------------------------------------------
NoFile == [k |-> "nofile"]
Garbage == [k |-> "garbage"]
CsvFile(header, lines) == [k |-> "csv", header |-> header, lines |-> lines]
Blank == [k |-> "blank"]
Junk == Text("n/a")
NoFrame == [k |-> "noframe"]

\* pd.read_csv: an empty field is NaN, a number a number, anything else text
read_csv(file) ==
    Frame(file.header,
          [i \in 1..Len(file.lines) |->
              [j \in 1..Len(file.lines[i]) |->
                  IF file.lines[i][j].k = "blank" THEN NaN ELSE file.lines[i][j]]])

\* pd.to_numeric(column, errors="coerce") on one cell
to_numeric_coerce(x) == IF x.k = "num" THEN x ELSE NaN

load_csv(path_or_buffer) ==
    IF path_or_buffer.k = "nofile" THEN Raise("FileNotFoundError")
    ELSE IF path_or_buffer.k = "garbage" THEN Raise("ParserError")
    ELSE LET raw == read_csv(path_or_buffer)
         IN  IF ~InSeq(Country, raw.columns) THEN Raise("ValueError")
             ELSE Ok(Frame(raw.columns,
                           [i \in 1..Len(raw.rows) |->
                               [j \in 1..Len(raw.rows[i]) |->
                                   IF raw.columns[j] = Country THEN raw.rows[i][j]
                                   ELSE to_numeric_coerce(raw.rows[i][j])]]))

\* pd.DataFrame(columns=["Country","2020",...,"2025"])
FallbackFrame == Frame(<<Country, Y2020, Y2021, Y2022, Y2023, Y2024, Y2025>>, <<>>)

\* df.empty
empty(d) == Len(d.columns) = 0 \/ Len(d.rows) = 0

\* the test before st.stop()
must_stop_no_empty_test(d) == ~InSeq(Country, d.columns)

must_stop(d) == empty(d) \/ ~InSeq(Country, d.columns)

\* df[name] = vals
AddColumn(d, name, vals) ==
    Frame(Append(d.columns, name),
          [i \in 1..Len(d.rows) |-> Append(d.rows[i], vals[i])])

Column(d, name) == [i \in 1..Len(d.rows) |-> SeriesItem(FrameRow(d, i), name)]

CagrYears == 5

\* lines 79-84 on a table whose year columns are yc
enrich(d, yc, kind) ==
    LET latest == [i \in 1..Len(d.rows) |-> latest_value(FrameRow(d, i), yc).v]
        d1 == AddColumn(d, LatestGDP, [i \in 1..Len(d.rows) |-> latest[i].value])
        d2 == AddColumn(d1, LatestYear, [i \in 1..Len(d.rows) |-> latest[i].period])
        d3 == AddColumn(d2, Pct_2020_2021,
                  [i \in 1..Len(d.rows) |->
                      IF InSeq(Y2020, d2.columns) /\ InSeq(Y2021, d2.columns)
                      THEN pct_change(SeriesItem(FrameRow(d2, i), Y2020),
                                      SeriesItem(FrameRow(d2, i), Y2021))
                      ELSE NaN])
        d4 == AddColumn(d3, Pct_2020_2022,
                  [i \in 1..Len(d.rows) |->
                      IF InSeq(Y2020, d3.columns) /\ InSeq(Y2022, d3.columns)
                      THEN pct_change(SeriesItem(FrameRow(d3, i), Y2020),
                                      SeriesItem(FrameRow(d3, i), Y2022))
                      ELSE NaN])
    IN  AddColumn(d4, CAGR_2020_2025,
                  [i \in 1..Len(d.rows) |->
                      IF InSeq(Y2020, d4.columns) /\ InSeq(Y2025, d4.columns)
                      THEN cagr(SeriesItem(FrameRow(d4, i), Y2020),
                                SeriesItem(FrameRow(d4, i), Y2025), CagrYears, kind)
                      ELSE NaN])

\* ------------------------------------------------------------------------
\* The Surprising Growers tab
\* ------------------------------------------------------------------------
MinBaseTopN == 10
MaxBaseTopN == 11
MinPercentile == 50
MaxPercentile == 99

\* one step of a stable insertion sort of row positions on key[position]
RECURSIVE InsertByKey(_, _, _, _)
InsertByKey(x, s, key, descending) ==
    IF s = <<>> THEN <<x>>
    ELSE IF (IF descending THEN RLe(key[x], key[Head(s)]) ELSE RLe(key[Head(s)], key[x]))
         THEN <<Head(s)>> \o InsertByKey(x, Tail(s), key, descending)
         ELSE <<x>> \o s

RECURSIVE SortByKey(_, _, _)
SortByKey(s, key, descending) ==
    IF s = <<>> THEN <<>>
    ELSE InsertByKey(s[Len(s)], SortByKey(SubSeq(s, 1, Len(s) - 1), key, descending),
                     key, descending)

RECURSIVE Positions(_, _, _)
Positions(col, i, want_na) ==
    IF i > Len(col) THEN <<>>
    ELSE (IF isna(col[i]) = want_na THEN <<i>> ELSE <<>>) \o Positions(col, i + 1, want_na)

FirstN(s, n) == SubSeq(s, 1, IF n < Len(s) THEN n ELSE Len(s))

\* df.nlargest(n, name): positions of the n largest values, first occurrence
\* kept on ties, rows without a value after all others
nlargest(d, n, name) ==
    LET col == Column(d, name)
    IN  FirstN(SortByKey(Positions(col, 1, FALSE), col, TRUE) \o Positions(col, 1, TRUE), n)

SeqRange(s) == { s[i] : i \in 1..Len(s) }

\* line 182: the Country values of the rows nlargest returns
top_base_names(d, base_top_n) ==
    { SeriesItem(FrameRow(d, i), Country) : i \in SeqRange(nlargest(d, base_top_n, Y2020)) }

\* positions i.. at which mask holds
RECURSIVE Where(_, _)
Where(mask, i) ==
    IF i > Len(mask) THEN <<>>
    ELSE (IF mask[i] THEN <<i>> ELSE <<>>) \o Where(mask, i + 1)

\* line 181
has_both(d, i) ==
    notna(SeriesItem(FrameRow(d, i), Y2020)) /\ notna(SeriesItem(FrameRow(d, i), Y2025))

\* line 183: positions of the candidate rows
candidate_rows(d, top_base) ==
    Where([i \in 1..Len(d.rows) |->
              SeriesItem(FrameRow(d, i), Country) \notin top_base /\ has_both(d, i)], 1)

RECURSIVE DropNa(_)
DropNa(xs) ==
    IF xs = <<>> THEN <<>>
    ELSE (IF isna(Head(xs)) THEN <<>> ELSE <<Head(xs)>>) \o DropNa(Tail(xs))

\* line 185
valid_cagrs(d, cand) ==
    DropNa([i \in 1..Len(cand) |-> SeriesItem(FrameRow(d, cand[i]), CAGR_2020_2025)])

\* np.nanpercentile(xs, q), linear interpolation, xs non-empty without NaN
np_nanpercentile(xs, q) ==
    LET key == [i \in 1..Len(xs) |-> xs[i]]
        order == SortByKey([i \in 1..Len(xs) |-> i], key, FALSE)
        arr == [i \in 1..Len(xs) |-> xs[order[i]]]
        lo == (q * (Len(xs) - 1)) \div 100
        frac == Num(q * (Len(xs) - 1) - 100 * lo, 100)
    IN  IF lo + 2 > Len(xs) THEN arr[Len(xs)]
        ELSE RAdd(arr[lo + 1], RMul(RSub(arr[lo + 2], arr[lo + 1]), frac))

\* line 189: positions of the rows kept
surprising_rows_strict(d, cand, threshold) ==
    LET kept == Where([i \in 1..Len(cand) |->
                          /\ notna(SeriesItem(FrameRow(d, cand[i]), CAGR_2020_2025))
                          /\ RLt(threshold,
                                 SeriesItem(FrameRow(d, cand[i]), CAGR_2020_2025))], 1)
    IN  [i \in 1..Len(kept) |-> cand[kept[i]]]

surprising_rows(d, cand, threshold) ==
    LET kept == Where([i \in 1..Len(cand) |->
                          /\ notna(SeriesItem(FrameRow(d, cand[i]), CAGR_2020_2025))
                          /\ RLe(threshold,
                                 SeriesItem(FrameRow(d, cand[i]), CAGR_2020_2025))], 1)
    IN  [i \in 1..Len(kept) |-> cand[kept[i]]]

\* x.round(2): to the nearest hundredth, halves to even
Floor(x) == x.n \div x.d
round2(x) ==
    IF x.k # "num" THEN x
    ELSE LET h == RMul(x, Whole(100))
             q == Floor(h)
             twice == RSub(RMul(h, Whole(2)), Whole(2 * q))
         IN  IF RLt(Whole(1), twice) \/ (twice = Whole(1) /\ q % 2 = 1)
             THEN Num(q + 1, 100) ELSE Num(q, 100)

\* lines 201-207: the view, sorted by CAGR descending and rounded
view_of(d, sel, yc) ==
    LET col == Column(d, CAGR_2020_2025)
        order == SortByKey(sel, col, TRUE)
    IN  [i \in 1..Len(order) |->
            LET r == FrameRow(d, order[i])
            IN  [ Country |-> SeriesItem(r, Country),
                  y2020 |-> round2(SeriesItem(r, Y2020)),
                  y2025 |-> round2(SeriesItem(r, Y2025)),
                  CAGR_2020_2025 |-> round2(SeriesItem(r, CAGR_2020_2025)),
                  Avg_Annual_Growth |-> round2(Avg_Annual_Growth(r, yc)),
                  Volatility_SD |-> round2(Volatility_SD(r, yc)) ]]

\* ------------------------------------------------------------------------
\* State
\* ------------------------------------------------------------------------
VARIABLES
    op,            \* the helper last called ("idle" between calls)
    args,          \* its arguments
    out,           \* what it returned or raised
    pc,            \* where the script run is: "start", "gate" (line 73),
                   \* "enrich" (76), "tabs" (86), "surprise" (177), "slider"
                   \* (187), "data_table" (223), "stopped" (st.stop()), "error"
    uploaded,      \* the file in the uploader, or NoFile
    default_file,  \* what is at default_path: a file, or NoFile
    df,            \* the table
    year_cols,     \* the module-level year_cols
    tab,           \* the Surprising Growers tab: widgets and locals
    err            \* the exception that ended the run, or "none"

coreVars == <<op, args, out>>
appVars == <<pc, uploaded, default_file, df, year_cols, tab, err>>
vars == <<op, args, out, pc, uploaded, default_file, df, year_cols, tab, err>>

\* ------------------------------------------------------------------------
\* Inputs of the helpers
\* ------------------------------------------------------------------------
Scalars == {NaN} \cup {Whole(i) : i \in (-MaxVal)..MaxVal}
RowVals == {NaN} \cup {Whole(i) : i \in (-1)..MaxVal}
NYears == (-1)..MaxYears

Layouts ==
    { <<Country, P9, P10, P11>>, <<Country, P11, P9, P10>>, <<P10, P9>>,
      <<Country, P9, P10, GDPpc>>, <<Country, P09, P10>>, <<Country>>,
      <<Country, P9>> }

Rows ==
    UNION { { Series(l, v) :
                v \in { w \in [1..Len(l) -> RowVals \cup {Text("A")}] :
                          \A i \in 1..Len(l) : (w[i].k = "text") <=> (l[i] = Country) } } :
            l \in Layouts }

ListNames == {P9, P10, P11}
PeriodLists ==
    { s \in UNION { [1..n -> ListNames] : n \in 0..3 } :
        \A i, j \in 1..Len(s) : i # j => s[i] # s[j] }
    \cup { <<P09, P10>>, <<P10, P09>>, <<P9, Y2020>>, <<GDPpc, P9>>, <<Country>> }

\* ------------------------------------------------------------------------
\* The helpers, called on every input
\* ------------------------------------------------------------------------
NoTab == [stage |-> "none"]

CoreInit ==
    /\ op = "idle"
    /\ args = [none |-> TRUE]
    /\ out = NaN
    /\ pc = "off"
    /\ uploaded = NoFile
    /\ default_file = NoFile
    /\ df = NoFrame
    /\ year_cols = <<>>
    /\ tab = NoTab
    /\ err = "none"

Call_latest_value ==
    /\ op = "idle"
    /\ \E row \in Rows, yc \in PeriodLists :
        /\ op' = "latest_value"
        /\ args' = [row |-> row, year_cols |-> yc]
        /\ out' = latest_value(row, yc)
    /\ UNCHANGED appVars

Call_pct_change ==
    /\ op = "idle"
    /\ \E a \in Scalars, b \in Scalars :
        /\ op' = "pct_change"
        /\ args' = [a |-> a, b |-> b]
        /\ out' = pct_change(a, b)
    /\ UNCHANGED appVars

Call_cagr ==
    /\ op = "idle"
    /\ \E a \in Scalars, b \in Scalars, n \in NYears, kind \in ScalarKinds :
        /\ op' = "cagr"
        /\ args' = [a |-> a, b |-> b, n_years |-> n, kind |-> kind]
        /\ out' = cagr(a, b, n, kind)
    /\ UNCHANGED appVars

Call_annual_growth_series ==
    /\ op = "idle"
    /\ \E row \in Rows :
        /\ op' = "annual_growth_series"
        /\ args' = [row |-> row]
        /\ out' = annual_growth_series(row)
    /\ UNCHANGED appVars

\* the volatility summary of one row, as the Surprising Growers tab computes it
\* with year_cols = get_year_cols of the row's own table
Call_volatility ==
    /\ op = "idle"
    /\ \E row \in Rows :
        /\ get_year_cols(to_frame_T(row)).k = "ok"
        /\ LET yc == get_year_cols(to_frame_T(row)).v
           IN  /\ op' = "volatility"
               /\ args' = [row |-> row, year_cols |-> yc]
               /\ out' = [k |-> "ok",
                          Volatility_SD |-> Volatility_SD(row, yc),
                          Avg_Annual_Growth |-> Avg_Annual_Growth(row, yc)]
    /\ UNCHANGED appVars

Return ==
    /\ op # "idle"
    /\ op' = "idle"
    /\ args' = [none |-> TRUE]
    /\ out' = NaN
    /\ UNCHANGED appVars

CoreNext ==
    \/ Call_latest_value
    \/ Call_pct_change
    \/ Call_cagr
    \/ Call_annual_growth_series
    \/ Call_volatility
    \/ Return

CoreSpec == CoreInit /\ [][CoreNext]_vars

\* ------------------------------------------------------------------------
\* One run of the script on the files at hand
\* ------------------------------------------------------------------------
ExtraCells == {Blank, Junk, Whole(0), Whole(32), Whole(1024)}

H_full == <<Country, Y2020, Y2025>>
SmallHeaders ==
    { H_full, <<Country, Y2020, Y2021>>, <<Y2020, Y2025>>, <<Country>>,
      <<Country, Y2020, GDPpc>> }

\* the lines of a file with header h: a name under Country, a cell of cells
\* under every other column
LinesOf(h, cells) ==
    { w \in [1..Len(h) -> cells \cup {Text("X")}] :
        \A j \in 1..Len(h) : (w[j] = Text("X")) <=> (h[j] = Country) }

Tails(h, cells) == UNION { [1..n -> LinesOf(h, cells)] : n \in 0..MaxExtra }

\* a block of complete rows, one more than the smallest Top-N exclusion
BaseSize == MinBaseTopN + 1
BaseNames == <<"M1", "M2", "M3", "M4", "M5", "M6", "M7", "M8", "M9", "M10", "M11">>
BaseLines ==
    [i \in 1..BaseSize |->
        <<Text(BaseNames[i]),
          IF i = BaseSize THEN Whole(32) ELSE Whole(243),
          IF i % 2 = 0 THEN Whole(1024) ELSE Whole(243)>>]

SmallFiles ==
    {Garbage} \cup UNION { { CsvFile(h, ls) : ls \in Tails(h, ExtraCells) } : h \in SmallHeaders }
BigFiles == { CsvFile(H_full, BaseLines \o ls) : ls \in Tails(H_full, ExtraCells \ {Junk}) }
SampleDefault == CsvFile(H_full, <<<<Text("X"), Whole(32), Whole(1024)>>>>)

AppInit ==
    /\ pc = "start"
    /\ \/ uploaded = NoFile /\ default_file \in {NoFile} \cup SmallFiles
       \/ uploaded \in SmallFiles \cup BigFiles /\ default_file \in {NoFile, SampleDefault}
    /\ df = NoFrame
    /\ year_cols = <<>>
    /\ tab = NoTab
    /\ err = "none"
    /\ op = "idle"
    /\ args = [none |-> TRUE]
    /\ out = NaN

\* lines 62-71
DataInput ==
    /\ pc = "start"
    /\ IF uploaded # NoFile
       THEN LET r == load_csv(uploaded)
            IN  IF r.k = "raise"
                THEN pc' = "error" /\ err' = r.e /\ df' = df
                ELSE pc' = "gate" /\ err' = err /\ df' = r.v
       ELSE LET r == load_csv(default_file)
            IN  /\ pc' = "gate"
                /\ err' = err
                /\ df' = IF r.k = "raise" THEN FallbackFrame ELSE r.v
    /\ UNCHANGED <<uploaded, default_file, year_cols, tab, coreVars>>

\* lines 73-74
Gate ==
    /\ pc = "gate"
    /\ pc' = IF must_stop(df) THEN "stopped" ELSE "enrich"
    /\ UNCHANGED <<uploaded, default_file, df, year_cols, tab, err, coreVars>>

\* lines 76-84
Enrich ==
    /\ pc = "enrich"
    /\ LET yc == get_year_cols(df)
       IN  IF yc.k = "raise"
           THEN pc' = "error" /\ err' = yc.e /\ UNCHANGED <<df, year_cols>>
           ELSE /\ pc' = "tabs"
                /\ err' = err
                /\ year_cols' = yc.v
                /\ \E kind \in ScalarKinds : df' = enrich(df, yc.v, kind)
    /\ UNCHANGED <<uploaded, default_file, tab, coreVars>>

\* lines 86-172: the header and the first three tabs; the map tab takes
\* min(map(int, year_cols)), a ValueError on an empty list
Tabs ==
    /\ pc = "tabs"
    /\ IF year_cols = <<>>
       THEN pc' = "error" /\ err' = "ValueError"
       ELSE pc' = "surprise" /\ err' = err
    /\ UNCHANGED <<uploaded, default_file, df, year_cols, tab, coreVars>>

\* lines 177-185 and 217-220
SurpriseTab ==
    /\ pc = "surprise"
    /\ \E n \in MinBaseTopN..MaxBaseTopN :
        IF ~(InSeq(Y2020, df.columns) /\ InSeq(Y2025, df.columns))
        THEN /\ tab' = [stage |-> "no_columns", base_top_n |-> n]
             /\ df' = df
             /\ pc' = "data_table"
        ELSE \E d \in {AddColumn(df, Has_2020_and_2025,
                           [i \in 1..Len(df.rows) |-> [k |-> "bool", b |-> has_both(df, i)]])} :
             \E top_base \in {top_base_names(d, n)} :
             \E cand \in {candidate_rows(d, top_base)} :
             \E valid \in {valid_cagrs(d, cand)} :
                 /\ df' = d
                 /\ tab' = [stage |-> "candidates", base_top_n |-> n,
                            top_base |-> top_base,
                            candidates |-> cand,
                            valid_cagrs |-> valid]
                 /\ pc' = IF valid # <<>> THEN "slider" ELSE "data_table"
    /\ UNCHANGED <<uploaded, default_file, year_cols, err, coreVars>>

\* lines 187-208
Select ==
    /\ pc = "slider"
    /\ \E p \in MinPercentile..MaxPercentile :
        \E threshold \in {np_nanpercentile(tab.valid_cagrs, p)} :
        \E sel \in {surprising_rows(df, tab.candidates, threshold)} :
            tab' = [stage |-> "selected", base_top_n |-> tab.base_top_n,
                    top_base |-> tab.top_base,
                    candidates |-> tab.candidates,
                    valid_cagrs |-> tab.valid_cagrs,
                    percentile |-> p,
                    threshold |-> threshold,
                    surprising |-> sel,
                    view |-> view_of(df, sel, year_cols)]
    /\ pc' = "data_table"
    /\ UNCHANGED <<uploaded, default_file, df, year_cols, err, coreVars>>

AppNext ==
    \/ DataInput
    \/ Gate
    \/ Enrich
    \/ Tabs
    \/ SurpriseTab
    \/ Select

AppSpec == AppInit /\ [][AppNext]_vars

\* ------------------------------------------------------------------------
\* Claims about the helpers (checked under CoreSpec)
\* ------------------------------------------------------------------------
RECURSIVE RPowN(_, _)
RPowN(x, n) == IF n = 0 THEN Whole(1) ELSE RMul(x, RPowN(x, n - 1))

\* r is ((b / a) ** (1 / n) - 1) * 100 as a real number
IsCagrOf(r, a, b, n) ==
    \/ /\ r.k = "num"
       /\ LET g == RAdd(RDiv(r, Whole(100)), Whole(1))
          IN  /\ RPowN(g, n) = RDiv(b, a)
              /\ (b.n >= 0 => g.n >= 0)
    \/ /\ r.k = "irr"
       /\ r.root.base = RDiv(b, a)
       /\ r.root.n = n
       /\ b.n > 0
       /\ ~\E p \in 0..RDiv(b, a).n, q \in 1..RDiv(b, a).d :
              RPowN(Num(p, q), n) = RDiv(b, a)

CagrUndefinedInput(a, b, n) == isna(a) \/ isna(b) \/ a.n <= 0 \/ n <= 0

\* the transitions a growth sequence keeps: both ends present, earlier one positive
RECURSIVE KeptChanges(_, _, _)
KeptChanges(row, cols, i) ==
    IF i >= Len(cols) THEN <<>>
    ELSE LET a == SeriesItem(row, cols[i])
             b == SeriesItem(row, cols[i + 1])
         IN  (IF a.k = "num" /\ b.k = "num" /\ a.n > 0
              THEN <<Num((b.n * a.d - a.n * b.d) * 100 * a.d, a.n * a.d * b.d)>>
              ELSE <<>>) \o KeptChanges(row, cols, i + 1)

OnlyPeriodColumns(row) == AllParse(SelectNames(row.index, Country))
PeriodColumns(row) == SortedByInt(SelectNames(row.index, Country), FALSE)

\* C1: latest_value(row, periods), for any ordering of a list of periods the
\* row holds, returns the value and the name of a period with a present value
\* such that no period of the list with a present value is later (as
\* integers); it returns (NaN, NaN) exactly when no listed period is present.
C1_LatestValue ==
    (op = "latest_value" /\ AllParse(args.year_cols)
        /\ \A i \in 1..Len(args.year_cols) : InSeq(args.year_cols[i], args.row.index))
    => LET yc == args.year_cols
           present == { i \in 1..Len(yc) : notna(SeriesItem(args.row, yc[i])) }
       IN  /\ out.k = "ok"
           /\ IF present = {}
              THEN out.v = [value |-> NaN, period |-> NaN]
              ELSE /\ out.v.period.k = "str"
                   /\ \E i \in present : yc[i] = out.v.period.s
                   /\ out.v.value = SeriesItem(args.row, out.v.period.s)
                   /\ \A i \in present : IntOf(yc[i]) <= IntOf(out.v.period.s)

C1_Witness ==
    /\ op = "latest_value"
    /\ args.year_cols = <<P10, P11, P9>>
    /\ args.row.index = <<Country, P11, P9, P10>>
    /\ args.row.values = <<Text("A"), NaN, Whole(1), Whole(2)>>
    /\ out = Ok([value |-> Whole(2), period |-> Str(P10)])

\* C2: pct_change(a, b) is (b - a) / a * 100 for present a, b with a # 0,
\* and no value when a is missing, b is missing or a = 0.
C2_PctChange ==
    op = "pct_change"
    => IF isna(args.a) \/ isna(args.b) \/ args.a.n = 0
       THEN out = NaN
       ELSE /\ out.k = "num"
            /\ out.n * args.a.n * args.b.d
                 = (args.b.n * args.a.d - args.a.n * args.b.d) * 100 * out.d

C2_Witness ==
    /\ op = "pct_change"
    /\ args.a = Whole(-2)
    /\ args.b = Whole(1)
    /\ out = Whole(-150)

\* C3: pct_change(a, b) returns no value for every base a <= 0 and whenever
\* a or b is missing.
C3_NoValueForNonPositiveBase ==
    (op = "pct_change" /\ (isna(args.a) \/ isna(args.b) \/ args.a.n <= 0))
    => out = NaN

\* C4 as claimed: cagr(a, b, n) returns no value when a is missing, b is
\* missing, a <= 0 or n <= 0, and the defined value ((b/a)^(1/n) - 1) * 100 for
\* every other input, b <= 0 included.
C4_CagrAsClaimed ==
    op = "cagr"
    => IF CagrUndefinedInput(args.a, args.b, args.n_years)
       THEN out = NaN
       ELSE IsCagrOf(out, args.a, args.b, args.n_years)

\* C4 amended: cagr(a, b, n) returns no value when a is missing, b is missing,
\* a <= 0 or n <= 0, and the defined value ((b/a)^(1/n) - 1) * 100 for every
\* other input with b >= 0.
C4_CagrNonNegativeEnd ==
    op = "cagr"
    => IF CagrUndefinedInput(args.a, args.b, args.n_years)
       THEN out = NaN
       ELSE (args.b.n >= 0 => IsCagrOf(out, args.a, args.b, args.n_years))

C4_Witness ==
    /\ op = "cagr"
    /\ args.a = Whole(1)
    /\ args.b = Whole(4)
    /\ args.n_years = 2
    /\ out = Whole(100)

\* C5: over a row's values in ascending period order, the growth sequence is
\* exactly the ordered list of (b - a) / a * 100 over the adjacent pairs with
\* a and b present and a > 0, every other transition omitted.
C5_GrowthSequence ==
    (op = "annual_growth_series" /\ OnlyPeriodColumns(args.row))
    => /\ out = Ok(KeptChanges(args.row, PeriodColumns(args.row), 1))
       /\ Len(out.v) <= Len(PeriodColumns(args.row)) - 1
          \/ PeriodColumns(args.row) = <<>>

\* C6: the volatility summary has no value for both the mean and the standard
\* deviation when the row's growth sequence is empty, and a defined mean and a
\* defined standard deviation when it has at least one element.
C6_Volatility ==
    op = "volatility"
    => LET g == series_growth(args.row, args.year_cols)
       IN  IF Len(g) = 0
           THEN out.Volatility_SD = NaN /\ out.Avg_Annual_Growth = NaN
           ELSE /\ out.Volatility_SD.k \in {"num", "sqrt"}
                /\ out.Avg_Annual_Growth.k = "num"
                /\ out.Avg_Annual_Growth = RDiv(RSum(g), Whole(Len(g)))

C6_Witness ==
    /\ op = "volatility"
    /\ args.row.index = <<Country, P9, P10, P11>>
    /\ args.row.values = <<Text("A"), Whole(1), Whole(2), NaN>>
    /\ out.Volatility_SD = Whole(0)
    /\ out.Avg_Annual_Growth = Whole(100)

\* C7: latest_value, pct_change, cagr and annual_growth_series never raise, for
\* every row of numeric or missing period values and every list of periods,
\* rows with other columns and lists naming a period the row lacks included.
C7_Total ==
    (op \in {"latest_value", "pct_change", "cagr", "annual_growth_series"}
        /\ (op = "latest_value" => AllParse(args.year_cols)))
    => out.k # "raise"

\* ------------------------------------------------------------------------
\* Claims about the script run (checked under AppSpec)
\* ------------------------------------------------------------------------
UsedFile == IF uploaded # NoFile THEN uploaded ELSE default_file

Malformed(f) ==
    /\ f.k = "csv"
    /\ \/ ~InSeq(Country, f.header)
       \/ \E i \in 1..Len(f.lines), j \in 1..Len(f.header) :
              IntParses(f.header[j]) /\ f.lines[i][j].k = "text"

\* C8: a malformed table (no identifier column, or a non-numeric value in a
\* period column) is rejected when it is loaded: after the data-input step no
\* table built from it exists (the load raised, leaving no table or only the
\* empty fallback frame), so no non-numeric value has become a missing cell
\* and the run never goes on to the metrics.
C8_FailFast ==
    (pc # "start" /\ Malformed(UsedFile))
    => /\ df \in {NoFrame, FallbackFrame}
       /\ pc \in {"error", "gate", "stopped"}

EnrichReached ==
    \/ pc \in {"enrich", "tabs", "surprise", "slider", "data_table"}
    \/ pc = "error" /\ df # NoFrame

\* C9: metric enrichment is reached only with a non-empty table that has a
\* Country column; with no upload and a default file whose load raises, the
\* table is the empty fallback frame and the run goes to st.stop(); an
\* exception from loading an uploaded file ends the run at once.
C9_EnrichmentGate ==
    /\ EnrichReached => (~empty(df) /\ InSeq(Country, df.columns))
    /\ (pc # "start" /\ uploaded = NoFile /\ load_csv(default_file).k = "raise")
          => (df = FallbackFrame /\ pc \in {"gate", "stopped"} /\ err = "none")
    /\ (pc # "start" /\ uploaded # NoFile /\ load_csv(uploaded).k = "raise")
          => (pc = "error" /\ df = NoFrame /\ err = load_csv(uploaded).e)

C9_Witness ==
    /\ pc = "stopped"
    /\ uploaded = NoFile
    /\ default_file.k = "csv"
    /\ ~InSeq(Country, default_file.header)
    /\ Len(default_file.lines) > 0
    /\ df = FallbackFrame

\* row i is one of the n rows with the largest values under Y2020
AmongLargest2020(i, n) ==
    LET v(j) == SeriesItem(FrameRow(df, j), Y2020)
    IN  /\ notna(v(i))
        /\ Cardinality({ j \in 1..Len(df.rows) :
                           /\ j # i
                           /\ notna(v(j))
                           /\ (RLt(v(i), v(j)) \/ (v(j) = v(i) /\ j < i)) }) < n

IsCandidate(i, n) ==
    /\ ~\E j \in 1..Len(df.rows) :
            /\ AmongLargest2020(j, n)
            /\ SeriesItem(FrameRow(df, j), Country) = SeriesItem(FrameRow(df, i), Country)
    /\ notna(SeriesItem(FrameRow(df, i), Y2020))
    /\ notna(SeriesItem(FrameRow(df, i), Y2025))

\* C10: every selected row is outside the base_top_n rows with the largest
\* 2020 value, has its 2020 and 2025 values and a defined CAGR_2020_2025 that
\* is at least the threshold; and whenever a candidate has a defined CAGR the
\* slider is reached and, for every percentile from 50 to 99, the selection is
\* not empty.
C10_SurprisingGrowers ==
    /\ tab.stage = "selected" =>
          /\ \A k \in 1..Len(tab.surprising) :
                LET r == FrameRow(df, tab.surprising[k])
                IN  /\ ~AmongLargest2020(tab.surprising[k], tab.base_top_n)
                    /\ notna(SeriesItem(r, Y2020))
                    /\ notna(SeriesItem(r, Y2025))
                    /\ SeriesItem(r, CAGR_2020_2025).k = "num"
                    /\ RLe(tab.threshold, SeriesItem(r, CAGR_2020_2025))
          /\ tab.percentile \in MinPercentile..MaxPercentile
          /\ tab.surprising # <<>>
    /\ (tab.stage = "candidates"
          /\ \E i \in 1..Len(df.rows) :
                /\ IsCandidate(i, tab.base_top_n)
                /\ notna(SeriesItem(FrameRow(df, i), CAGR_2020_2025)))
       => pc = "slider"

C10_Witness ==
    /\ tab.stage = "selected"
    /\ tab.percentile = 90
    /\ Len(tab.valid_cagrs) >= 2
    /\ Len(tab.surprising) < Len(tab.candidates)
    /\ \E k \in 1..Len(tab.valid_cagrs) : RLt(tab.valid_cagrs[k], tab.threshold)
    /\ \E k \in 1..Len(tab.surprising) :
          SeriesItem(FrameRow(df, tab.surprising[k]), Country) = Text("X")

=============================================================================
